---- MODULE Spec2Model ----
(***************************************************************************)
(* A model of the unstructured document parser                            *)
(* (airbyte_cdk/sources/file_based/file_types/unstructured_parser.py) and  *)
(* of the base-images build script (base_images/build.py).                 *)
(*                                                                         *)
(* The parser object holds no state between calls, so the model's state is *)
(* one call: its inputs, the file handle's position, what the call did     *)
(* (content sniffs, local-library calls, HTTP requests, warnings) and what *)
(* it produced (records, return value, exception).  The retried remote     *)
(* extraction and the build loop take one step per attempt / per pair.     *)
(*                                                                         *)
(* Text the code operates on (URLs, DEPLOYMENT_MODE, Markdown) is a        *)
(* sequence of one-character strings; file content is a sequence of bytes. *)
(* Results of third-party calls (detect_filetype, the partition functions, *)
(* the HTTP service, the sanity checks) are inputs of the call.            *)
(***************************************************************************)
EXTENDS Integers, Sequences, FiniteSets, TLC

VARIABLES
    op,          \* the entry point that was called ("none" before the call)
    pc,          \* "idle" | "retrying" | "building" | "built" | "done"
    config,      \* FileBasedStreamConfig: format validity, processing, skip flag
    env,         \* os.environ: DEPLOYMENT_MODE
    file,        \* RemoteFile (uri, mime_type), its bytes, detect_filetype's answers
    pos,         \* position of the file handle
    sniffs,      \* number of detect_filetype(file=...) calls (content reads by detection)
    filetype,    \* what _get_filetype returned
    fed,         \* list of the byte strings handed to extraction, one per extraction read
    tries,       \* attempts made by _read_file_remotely_with_retries
    last,        \* outcome of the latest extraction call (remote response / library result)
    transient,   \* history: every failed attempt so far was a connection error or a 5xx
    requests,    \* number of requests.post calls
    local_calls, \* number of unstructured_partition_* calls
    warnings,    \* logger.warn messages (the URI each one names)
    records,     \* records yielded by parse_records
    outcome,     \* "none" | "returned" | "raised" | "exited"
    result,      \* the returned value
    raised,      \* the exception that left the call
    verdict,     \* the pair check_config returned
    elements,    \* argument of _render_markdown
    log,         \* build script: Dockerfile / sanity-check events, in order
    successes,   \* build script: sanity_check_successes
    success,     \* build script: what a_build returned (read when pc is "built" or later)
    changelog,   \* build script: changelog file written
    exit_code    \* build script: status passed to sys.exit, -1 when not called

vars == << op, pc, config, env, file, pos, sniffs, filetype, fed, tries, last, transient,
           requests, local_calls, warnings, records, outcome, result, raised,
           verdict, elements, log, successes, success, changelog, exit_code >>

-----------------------------------------------------------------------------
(* Bounds of the model *)

\* longest file content, in bytes
MaxFileLen == 2
\* bytes detect_filetype reads from the head of the content (scaled down)
SniffLen == 1
\* longest element list handed to _render_markdown
MaxElements == 2
\* number of platforms and of base image versions in the build script
NumPlatforms == 2
NumImages == 2

(* Program constants *)

\* backoff.on_exception(..., max_tries=5, ...)
MaxTries == 5

-----------------------------------------------------------------------------
(* Python values *)

None == "None"

Min(a, b) == IF a < b THEN a ELSE b

RECURSIVE Repeat(_, _)
\* s * n for a string s: the empty string when n <= 0
Repeat(s, n) == IF n <= 0 THEN << >> ELSE s \o Repeat(s, n - 1)

\* Exceptions: the class, and what the claims read of its payload.
Exc(type, status, filename) == [type |-> type, status |-> status, filename |-> filename]
NoExc == Exc("None", 0, "")
ValueError == Exc("ValueError", 0, "")
KeyError == Exc("KeyError", 0, "")
UnicodeDecodeError == Exc("UnicodeDecodeError", 0, "")
LibraryError == Exc("Exception", 0, "")
RecordParseError(uri) == Exc("RecordParseError", 0, uri)
HTTPError(status) == Exc("HTTPError", status, "")
ConnectionError == Exc("ConnectionError", 0, "")
JSONDecodeError == Exc("JSONDecodeError", 0, "")

\* The classes deriving from requests.exceptions.RequestException
\* (requests' JSONDecodeError derives from it through InvalidJSONError).
RequestExceptionTypes == {"HTTPError", "ConnectionError", "JSONDecodeError"}

\* A function's effect: it returns a value or raises.
Return(v) == [raises |-> FALSE, value |-> v, exc |-> NoExc]
Raise(e) == [raises |-> TRUE, value |-> << >>, exc |-> e]

-----------------------------------------------------------------------------
(* Text *)

Str_https == << "h", "t", "t", "p", "s", ":", "/", "/" >>
Str_cloud == << "c", "l", "o", "u", "d" >>

\* str.casefold on the letters the model uses
casefold_char(c) ==
    CASE c = "C" -> "c"
      [] c = "L" -> "l"
      [] c = "O" -> "o"
      [] c = "U" -> "u"
      [] c = "D" -> "d"
      [] c = "S" -> "s"
      [] OTHER -> c

casefold(s) == [i \in DOMAIN s |-> casefold_char(s[i])]

startswith(s, prefix) ==
    /\ Len(s) >= Len(prefix)
    /\ SubSeq(s, 1, Len(prefix)) = prefix

\* bytes.decode("utf-8") on the bytes the model uses: 35 is "#", 65 is "A",
\* and 255 occurs in no UTF-8 text.
Bytes == {65, 255}
utf8_valid(b) == \A i \in DOMAIN b : b[i] < 128
utf8_char(n) == IF n = 35 THEN "#" ELSE "A"

optional_decode(contents) ==
    IF utf8_valid(contents)
    THEN Return([i \in DOMAIN contents |-> utf8_char(contents[i])])
    ELSE Raise(UnicodeDecodeError)

-----------------------------------------------------------------------------
(* _render_markdown *)

\* An element is a dict: a function whose domain holds the keys present.
\* dpath.util.get(el, key) raises KeyError for a missing key unless a default
\* is given.
has(el, key) == key \in DOMAIN el

category_depth(el) ==
    IF has(el, "metadata") /\ "category_depth" \in DOMAIN el.metadata
    THEN el.metadata.category_depth
    ELSE 1

\* The grave accent, which a TLA+ string cannot hold, and the code fence.
Grave == "GRAVE"
Fence == << Grave, Grave, Grave >>

_convert_to_markdown(el) ==
    IF ~has(el, "type") THEN Raise(KeyError)
    ELSE IF el.type = "Title" THEN
        IF ~has(el, "text") THEN Raise(KeyError)
        ELSE Return(Repeat(<< "#" >>, IF category_depth(el) = 0 THEN 1 ELSE category_depth(el))
                    \o << " " >> \o el.text)
    ELSE IF el.type = "ListItem" THEN
        IF ~has(el, "text") THEN Raise(KeyError)
        ELSE Return(<< "-", " " >> \o el.text)
    ELSE IF el.type = "Formula" THEN
        IF ~has(el, "text") THEN Raise(KeyError)
        ELSE Return(Fence \o << "\n" >> \o el.text \o << "\n" >> \o Fence)
    ELSE Return(IF has(el, "text") THEN el.text ELSE << >>)

Separator == << "\n", "\n" >>

RECURSIVE join_skip_empty(_, _)
\* join leaving out the empty blocks
join_skip_empty(sep, blocks) ==
    IF blocks = << >> THEN << >>
    ELSE IF blocks[1] = << >> THEN join_skip_empty(sep, Tail(blocks))
    ELSE IF Len(blocks) = 1 THEN blocks[1]
    ELSE blocks[1] \o sep \o join_skip_empty(sep, Tail(blocks))

RECURSIVE join(_, _)
\* sep.join(blocks)
join(sep, blocks) ==
    IF blocks = << >> THEN << >>
    ELSE IF Len(blocks) = 1 THEN blocks[1]
    ELSE blocks[1] \o sep \o join(sep, Tail(blocks))

_render_markdown(els) ==
    IF \E i \in DOMAIN els : _convert_to_markdown(els[i]).raises
    THEN Raise(KeyError)
    ELSE Return(join(Separator, [i \in DOMAIN els |-> _convert_to_markdown(els[i]).value]))

-----------------------------------------------------------------------------
(* File types *)

FileTypes == {"MD", "PDF", "DOCX", "PPTX", "TXT", "UNK"}

Mime_md == "text/markdown"
Mime_pdf == "application/pdf"
Mime_docx == "application/vnd.openxmlformats-officedocument.wordprocessingml.document"
Mime_pptx == "application/vnd.openxmlformats-officedocument.presentationml.presentation"
Mime_txt == "text/plain"

\* unstructured's MIME-to-kind table, the entries the model uses
STR_TO_FILETYPE ==
    (Mime_md :> "MD") @@ (Mime_pdf :> "PDF") @@ (Mime_docx :> "DOCX")
    @@ (Mime_pptx :> "PPTX") @@ (Mime_txt :> "TXT")

_supported_file_types == {"MD", "PDF", "DOCX", "PPTX"}

\* The MIME hints a stream reader may give: none, an empty one, table entries,
\* and one the table does not hold.
MimeHints == {None, "", Mime_md, Mime_pdf, Mime_docx, Mime_pptx, Mime_txt, "image/x-model"}

\* detect_filetype(filename=uri): the URIs of the model and the library's answer
\* for each (by extension; UNK or None when the name decides nothing).
NameKind ==
    ("a.md" :> "MD") @@ ("b.pdf" :> "PDF") @@ ("c.docx" :> "DOCX")
    @@ ("d.pptx" :> "PPTX") @@ ("e.txt" :> "TXT") @@ ("f" :> "UNK") @@ ("g" :> None)

Uris == DOMAIN NameKind

\* detect_filetype(file=handle): the library's answer for the content
ContentKinds == FileTypes \cup {None}

RECURSIVE SeqsUpTo(_, _)
SeqsUpTo(S, n) ==
    IF n = 0 THEN {<< >>}
    ELSE LET shorter == SeqsUpTo(S, n - 1)
         IN  shorter \cup {Append(s, x) : s \in shorter, x \in S}

Files ==
    [uri : Uris, mime_type : MimeHints, content_kind : ContentKinds,
     content : SeqsUpTo(Bytes, MaxFileLen)]

NoFile == [uri |-> "", mime_type |-> None, content_kind |-> None, content |-> << >>]

\* file.read(): everything from the position to the end
rest(content, p) == SubSeq(content, p + 1, Len(content))

\* detect_filetype(file=file) reads the head of the content and leaves the
\* handle where it stopped reading.
sniff(f, p) == [kind |-> f.content_kind, pos |-> Min(p + SniffLen, Len(f.content))]

\* _get_filetype without its file.seek(0)
_get_filetype_no_seek(f, p) ==
    IF f.mime_type # None /\ f.mime_type # "" /\ f.mime_type \in DOMAIN STR_TO_FILETYPE
    THEN [kind |-> STR_TO_FILETYPE[f.mime_type], pos |-> p, sniffs |-> 0]
    ELSE IF NameKind[f.uri] # None /\ NameKind[f.uri] # "UNK"
    THEN [kind |-> NameKind[f.uri], pos |-> p, sniffs |-> 0]
    ELSE [kind |-> sniff(f, p).kind, pos |-> sniff(f, p).pos, sniffs |-> 1]

\* _get_filetype with the file name tried before the MIME hint
_get_filetype_name_first(f, p) ==
    IF NameKind[f.uri] # None /\ NameKind[f.uri] # "UNK"
    THEN [kind |-> NameKind[f.uri], pos |-> p, sniffs |-> 0]
    ELSE IF f.mime_type # None /\ f.mime_type # "" /\ f.mime_type \in DOMAIN STR_TO_FILETYPE
    THEN [kind |-> STR_TO_FILETYPE[f.mime_type], pos |-> p, sniffs |-> 0]
    ELSE [kind |-> sniff(f, p).kind, pos |-> 0, sniffs |-> 1]

\* The detected kind, the handle's position afterwards, and the number of
\* content reads made.
_get_filetype(f, p) ==
    IF f.mime_type # None /\ f.mime_type # "" /\ f.mime_type \in DOMAIN STR_TO_FILETYPE
    THEN [kind |-> STR_TO_FILETYPE[f.mime_type], pos |-> p, sniffs |-> 0]
    ELSE IF NameKind[f.uri] # None /\ NameKind[f.uri] # "UNK"
    THEN [kind |-> NameKind[f.uri], pos |-> p, sniffs |-> 0]
    ELSE [kind |-> sniff(f, p).kind, pos |-> 0, sniffs |-> 1]

-----------------------------------------------------------------------------
(* Configuration *)

Url_https == Str_https \o << "a" >>
Url_http == << "h", "t", "t", "p", ":", "/", "/", "a" >>
Url_HTTPS == << "H", "T", "T", "P", "S", ":", "/", "/", "a" >>
ApiUrls == {Url_https, Url_http, Url_HTTPS, << >>}

\* Optional[bool], as Python prints it
SkipFlags == {"True", "False", None}

\* format_valid: config.format is an UnstructuredFormat.
\* mode: format.processing is LocalProcessingConfigModel ("local") or
\* APIProcessingConfigModel ("api").
Configs(urls, skips) ==
    [format_valid : BOOLEAN, mode : {"local", "api"}, skip : skips, api_url : urls]

NoConfig == [format_valid |-> TRUE, mode |-> "local", skip |-> None, api_url |-> << >>]

\* os.environ.get("DEPLOYMENT_MODE", ""): unset reads as the empty string
DeploymentModes ==
    { << >>, Str_cloud, << "C", "L", "O", "U", "D" >>, << "C", "l", "o", "u", "d" >>,
      << "o", "s", "s" >>, << "c", "l", "o", "u", "d", "s" >> }

_extract_format(cfg) == IF cfg.format_valid THEN Return(cfg) ELSE Raise(ValueError)

-----------------------------------------------------------------------------
(* Extraction *)

\* Element lists an extraction may produce
El_title == [type |-> "Title", text |-> << "A" >>, metadata |-> [category_depth |-> 2]]
El_text == [type |-> "NarrativeText", text |-> << >>]
El_no_text == [type |-> "ListItem"]
Bodies == { << >>, << El_title >>, << El_title, El_text >>, << El_no_text >> }

\* What the service answers to one request: a JSON body, an HTTP error status,
\* no answer (connection error), or a body that is not JSON.
Answer(kind, status, body) == [kind |-> kind, status |-> status, body |-> body]
ErrorStatuses == {400, 404, 499, 500, 503}
Answers ==
    {Answer("ok", 200, b) : b \in Bodies}
    \cup {Answer("http", s, << >>) : s \in ErrorStatuses}
    \cup {Answer("conn", 0, << >>), Answer("malformed", 200, << >>)}
NoAnswer == Answer("none", 0, << >>)

\* What the local library does: it cannot be imported, a partition function
\* raises, or it returns elements.
LibraryResults ==
    {Answer("ok", 0, b) : b \in Bodies}
    \cup {Answer("unavailable", 0, << >>), Answer("error", 0, << >>)}

\* _read_file_remotely after requests.post has read the file: raise_for_status,
\* response.json(), _render_markdown.
_read_file_remotely(answer) ==
    IF answer.kind = "conn" THEN Raise(ConnectionError)
    ELSE IF answer.kind = "http" THEN Raise(HTTPError(answer.status))
    ELSE IF answer.kind = "malformed" THEN Raise(JSONDecodeError)
    ELSE _render_markdown(answer.body)

\* _read_file_locally: the value or exception
_read_file_locally(lib) ==
    IF lib.kind = "unavailable" THEN Raise(LibraryError)
    ELSE IF lib.kind = "error" THEN Raise(LibraryError)
    ELSE _render_markdown(lib.body)

\* _read_file_locally: the bytes the partition function gets and the handle's
\* position afterwards.  PDF: seek(0), read(), seek(0).  DOCX, PPTX: the
\* handle itself, read from where it stands.
local_read(kind, content, p) ==
    IF kind = "PDF"
    THEN [data |-> rest(content, 0), pos |-> 0]
    ELSE [data |-> rest(content, p), pos |-> Len(content)]

\* bool(response) for a requests.Response is Response.ok: false for every
\* status raise_for_status raises on.
response_truthy(status) == status < 400

\* user_error: e.response is set for an HTTPError only
user_error(e) ==
    IF e.type \notin RequestExceptionTypes THEN FALSE
    ELSE /\ e.type = "HTTPError"
         /\ response_truthy(e.status)
         /\ 400 <= e.status
         /\ e.status < 500

\* backoff.on_exception: an exception that is not a RequestException is not
\* caught; a caught one is raised when giveup says so or the tries are used up.
gives_up_after_one_more(e, n) ==
    \/ e.type \notin RequestExceptionTypes
    \/ user_error(e)
    \/ n = MaxTries + 1

gives_up(e, n) ==
    \/ e.type \notin RequestExceptionTypes
    \/ user_error(e)
    \/ n = MaxTries

\* _handle_unprocessable_file: TRUE when it warns, FALSE when it raises
_handle_unprocessable_file_always_raises(skip) == FALSE

_handle_unprocessable_file(skip) == skip = "True"

\* The branch _read_file takes
_read_file_mode_first(kind, mode) ==
    IF kind \notin _supported_file_types THEN "unprocessable"
    ELSE IF mode = "local" /\ kind # "MD" THEN "local"
    ELSE IF mode = "api" THEN "api"
    ELSE "markdown"

_read_file(kind, mode) ==
    IF kind = "MD" THEN "markdown"
    ELSE IF kind \notin _supported_file_types THEN "unprocessable"
    ELSE IF mode = "local" THEN "local"
    ELSE IF mode = "api" THEN "api"
    ELSE "none"

-----------------------------------------------------------------------------
(* The state before a call *)

NoVerdict == [ok |-> FALSE, message |-> ""]

Init ==
    /\ op = "none"
    /\ pc = "idle"
    /\ config = NoConfig
    /\ env = << >>
    /\ file = NoFile
    /\ pos = 0
    /\ sniffs = 0
    /\ filetype = None
    /\ fed = << >>
    /\ tries = 0
    /\ last = NoAnswer
    /\ transient = TRUE
    /\ requests = 0
    /\ local_calls = 0
    /\ warnings = << >>
    /\ records = << >>
    /\ outcome = "none"
    /\ result = << >>
    /\ raised = NoExc
    /\ verdict = NoVerdict
    /\ elements = << >>
    /\ log = << >>
    /\ successes = << >>
    /\ success = FALSE
    /\ changelog = FALSE
    /\ exit_code = -1

parser_untouched == UNCHANGED << config, env, file, pos, sniffs, filetype, fed, tries,
                                 last, transient, requests, local_calls, warnings, records, verdict >>
build_untouched == UNCHANGED << log, successes, success, changelog, exit_code >>

-----------------------------------------------------------------------------
(* infer_schema and parse_records *)

\* What a call did to the handle and to the world, as one record
Effect(d) ==
    [pc |-> "done", pos |-> d.pos, sniffs |-> d.sniffs, filetype |-> d.kind,
     fed |-> << >>, last |-> NoAnswer, local_calls |-> 0, warnings |-> << >>,
     records |-> << >>, outcome |-> "returned", result |-> << >>, raised |-> NoExc]

NotOpened == [kind |-> None, pos |-> 0, sniffs |-> 0]

Record(markdown, f) == [content |-> markdown, document_key |-> f.uri]

Raised(e, exc) == [e EXCEPT !.outcome = "raised", !.raised = exc]

\* The file is unprocessable: warn and go on, or raise
unprocessable(e, f, skip) ==
    IF _handle_unprocessable_file(skip)
    THEN [e EXCEPT !.warnings = << f.uri >>]
    ELSE Raised(e, RecordParseError(f.uri))

infer_schema(cfg, f) ==
    LET d == _get_filetype(f, 0)
    IN  IF _extract_format(cfg).raises THEN Raised(Effect(NotOpened), ValueError)
        ELSE IF d.kind \notin _supported_file_types
        THEN unprocessable(Effect(d), f, cfg.skip)
        ELSE Effect(d)

\* parse_records up to the end of the call, or up to the first attempt of the
\* retried remote extraction
parse_records(cfg, f, lib) ==
    LET d == _get_filetype(f, 0)
        e == Effect(d)
        branch == _read_file(d.kind, cfg.mode)
        text == optional_decode(rest(f.content, d.pos))
        local == _read_file_locally(lib)
        read == local_read(d.kind, f.content, d.pos)
    IN  IF _extract_format(cfg).raises THEN Raised(Effect(NotOpened), ValueError)
        ELSE IF branch = "markdown" THEN
            LET m == [e EXCEPT !.pos = Len(f.content), !.fed = << rest(f.content, d.pos) >>]
            IN  IF text.raises THEN Raised(m, text.exc)
                ELSE [m EXCEPT !.result = text.value,
                               !.records = << Record(text.value, f) >>]
        ELSE IF branch = "unprocessable" THEN unprocessable(e, f, cfg.skip)
        ELSE IF branch = "local" THEN
            IF lib.kind = "unavailable" THEN Raised(e, local.exc)
            ELSE LET m == [e EXCEPT !.pos = read.pos, !.fed = << read.data >>,
                                    !.last = lib, !.local_calls = 1]
                 IN  IF local.raises THEN Raised(m, local.exc)
                     ELSE [m EXCEPT !.result = local.value,
                                    !.records = << Record(local.value, f) >>]
        ELSE IF branch = "api" THEN [e EXCEPT !.pc = "retrying", !.outcome = "none"]
        ELSE e

Apply(e) ==
    /\ pc' = e.pc
    /\ pos' = e.pos
    /\ sniffs' = e.sniffs
    /\ filetype' = e.filetype
    /\ fed' = e.fed
    /\ last' = e.last
    /\ local_calls' = e.local_calls
    /\ warnings' = e.warnings
    /\ records' = e.records
    /\ outcome' = e.outcome
    /\ result' = e.result
    /\ raised' = e.raised

ParseConfigs == Configs({Url_https}, SkipFlags)

InferSchema ==
    /\ pc = "idle"
    /\ \E cfg \in ParseConfigs, f \in Files :
        /\ op' = "infer_schema"
        /\ config' = cfg
        /\ file' = f
        /\ Apply(infer_schema(cfg, f))
        /\ UNCHANGED << env, tries, transient, requests, verdict, elements >>
        /\ build_untouched

ParseRecords ==
    /\ pc = "idle"
    /\ \E cfg \in ParseConfigs, f \in Files, lib \in LibraryResults :
        /\ op' = "parse_records"
        /\ config' = cfg
        /\ file' = f
        /\ Apply(parse_records(cfg, f, lib))
        /\ UNCHANGED << env, tries, transient, requests, verdict, elements >>
        /\ build_untouched

\* The failures the retry is for: no answer, or a 5xx answer
is_transient(answer) ==
    \/ answer.kind = "conn"
    \/ answer.kind = "http" /\ answer.status >= 500

\* requests.post(..., files={"file": ("filename", file_handle, mime)}) builds the
\* multipart body with file_handle.read(): the bytes from the handle's position
\* to the end, leaving the handle at the end.  Nothing in
\* _read_file_remotely or in the retry moves the handle before that read.
upload(content, p) == [data |-> rest(content, p), pos |-> Len(content)]

\* One attempt of _read_file_remotely_with_retries: requests.post reads the
\* handle from where it stands, then the answer decides.
Attempt ==
    /\ pc = "retrying"
    /\ \E answer \in Answers :
        LET n == tries + 1
            r == _read_file_remotely(answer)
        IN  /\ tries' = n
            /\ requests' = requests + 1
            /\ fed' = Append(fed, upload(file.content, pos).data)
            /\ pos' = upload(file.content, pos).pos
            /\ last' = answer
            /\ transient' = (transient /\ (answer.kind = "ok" \/ is_transient(answer)))
            /\ IF ~r.raises
               THEN /\ pc' = "done"
                    /\ outcome' = "returned"
                    /\ result' = r.value
                    /\ records' = << Record(r.value, file) >>
                    /\ UNCHANGED raised
               ELSE IF gives_up(r.exc, n)
               THEN /\ pc' = "done"
                    /\ outcome' = "raised"
                    /\ raised' = r.exc
                    /\ UNCHANGED << result, records >>
               ELSE UNCHANGED << pc, outcome, result, records, raised >>
            /\ UNCHANGED << op, config, env, file, sniffs, filetype, local_calls,
                            warnings, verdict, elements >>
            /\ build_untouched

-----------------------------------------------------------------------------
(* check_config *)

\* The fixed payload of the connection test, b"# Airbyte source connection test",
\* cut to its first two bytes
CheckPayload == << 35, 65 >>

Msg_https == "Base URL must start with https://"

\* "".join(traceback.format_exc()): the text names the exception's class
format_exc(e) == e.type

\* check_config comparing DEPLOYMENT_MODE as it is, without casefold
check_config_no_casefold(cfg, mode_env, answer) ==
    LET r == _read_file_remotely(answer)
        v == [outcome |-> "returned", raised |-> NoExc, requests |-> 0, fed |-> << >>,
              last |-> NoAnswer, verdict |-> NoVerdict]
    IN  IF _extract_format(cfg).raises
        THEN [v EXCEPT !.outcome = "raised", !.raised = ValueError]
        ELSE IF cfg.mode = "local"
        THEN [v EXCEPT !.verdict = [ok |-> TRUE, message |-> None]]
        ELSE IF mode_env = Str_cloud /\ ~startswith(cfg.api_url, Str_https)
        THEN [v EXCEPT !.verdict = [ok |-> FALSE, message |-> Msg_https]]
        ELSE LET w == [v EXCEPT !.requests = 1, !.fed = << CheckPayload >>, !.last = answer]
             IN  IF r.raises
                 THEN [w EXCEPT !.verdict = [ok |-> FALSE, message |-> format_exc(r.exc)]]
                 ELSE [w EXCEPT !.verdict = [ok |-> TRUE, message |-> None]]

\* check_config with the extraction call left outside the try
check_config_no_try(cfg, mode_env, answer) ==
    LET r == _read_file_remotely(answer)
        v == [outcome |-> "returned", raised |-> NoExc, requests |-> 0, fed |-> << >>,
              last |-> NoAnswer, verdict |-> NoVerdict]
    IN  IF _extract_format(cfg).raises
        THEN [v EXCEPT !.outcome = "raised", !.raised = ValueError]
        ELSE IF cfg.mode = "local"
        THEN [v EXCEPT !.verdict = [ok |-> TRUE, message |-> None]]
        ELSE IF casefold(mode_env) = Str_cloud /\ ~startswith(cfg.api_url, Str_https)
        THEN [v EXCEPT !.verdict = [ok |-> FALSE, message |-> Msg_https]]
        ELSE LET w == [v EXCEPT !.requests = 1, !.fed = << CheckPayload >>, !.last = answer]
             IN  IF r.raises
                 THEN [w EXCEPT !.outcome = "raised", !.raised = r.exc]
                 ELSE [w EXCEPT !.verdict = [ok |-> TRUE, message |-> None]]

check_config(cfg, mode_env, answer) ==
    LET r == _read_file_remotely(answer)
        v == [outcome |-> "returned", raised |-> NoExc, requests |-> 0, fed |-> << >>,
              last |-> NoAnswer, verdict |-> NoVerdict]
    IN  IF _extract_format(cfg).raises
        THEN [v EXCEPT !.outcome = "raised", !.raised = ValueError]
        ELSE IF cfg.mode = "local"
        THEN [v EXCEPT !.verdict = [ok |-> TRUE, message |-> None]]
        ELSE IF casefold(mode_env) = Str_cloud /\ ~startswith(cfg.api_url, Str_https)
        THEN [v EXCEPT !.verdict = [ok |-> FALSE, message |-> Msg_https]]
        ELSE LET w == [v EXCEPT !.requests = 1, !.fed = << CheckPayload >>, !.last = answer]
             IN  IF r.raises
                 THEN [w EXCEPT !.verdict = [ok |-> FALSE, message |-> format_exc(r.exc)]]
                 ELSE [w EXCEPT !.verdict = [ok |-> TRUE, message |-> None]]

CheckConfigs == Configs(ApiUrls, {None})

CheckConfig ==
    /\ pc = "idle"
    /\ \E cfg \in CheckConfigs, mode_env \in DeploymentModes, answer \in Answers :
        LET v == check_config(cfg, mode_env, answer)
        IN  /\ op' = "check_config"
            /\ pc' = "done"
            /\ config' = cfg
            /\ env' = mode_env
            /\ outcome' = v.outcome
            /\ raised' = v.raised
            /\ requests' = v.requests
            /\ fed' = v.fed
            /\ last' = v.last
            /\ verdict' = v.verdict
            /\ UNCHANGED << file, pos, sniffs, filetype, tries, transient, local_calls, warnings,
                            records, result, elements >>
            /\ build_untouched

-----------------------------------------------------------------------------
(* _render_markdown on its own *)

Texts == { << >>, << "A" >> }
Metadata == { << >>, [category_depth |-> 0], [category_depth |-> 2] }

Elements ==
    [type : {"Title"}, text : Texts]
    \cup [type : {"Title"}, text : Texts, metadata : Metadata]
    \cup [type : {"Title"}, metadata : Metadata]
    \cup [type : {"ListItem", "Formula", "NarrativeText"}, text : Texts]
    \cup [type : {"Title", "ListItem", "Formula", "NarrativeText"}]
    \cup [text : Texts]

RenderMarkdown ==
    /\ pc = "idle"
    /\ \E els \in SeqsUpTo(Elements, MaxElements) :
        LET r == _render_markdown(els)
        IN  /\ op' = "render_markdown"
            /\ pc' = "done"
            /\ elements' = els
            /\ outcome' = IF r.raises THEN "raised" ELSE "returned"
            /\ result' = r.value
            /\ raised' = r.exc
            /\ parser_untouched
            /\ build_untouched

-----------------------------------------------------------------------------
(* The build script *)

SUPPORTED_PLATFORMS == [i \in 1..NumPlatforms |-> i]
ALL_BASE_IMAGES == [i \in 1..NumImages |-> i]

\* itertools.product(A, B) as a list: the last factor varies fastest
product(A, B) ==
    [k \in 1..(Len(A) * Len(B)) |->
        << A[((k - 1) \div Len(B)) + 1], B[((k - 1) % Len(B)) + 1] >>]

Pairs == product(SUPPORTED_PLATFORMS, ALL_BASE_IMAGES)

\* What run_sanity_checks_for_version does: it passes, raises SanityCheckError,
\* raises something else, or the developer interrupts it.
CheckResults == {"ok", "SanityCheckError", "Exception", "KeyboardInterrupt"}

Event(what, pair, how) == [what |-> what, pair |-> pair, how |-> how]

RECURSIVE all(_)
all(bools) == IF bools = << >> THEN TRUE ELSE Head(bools) /\ all(Tail(bools))

\* main enters a_build
MainStart ==
    /\ pc = "idle"
    /\ op' = "build"
    /\ pc' = "building"
    /\ UNCHANGED << outcome, result, raised, elements >>
    /\ parser_untouched
    /\ build_untouched

\* run_sanity_checks dropping the failure it caught
record_check_ignoring_failure(checks, check) == Append(checks, TRUE)

\* run_sanity_checks' return value, appended to sanity_check_successes
record_check(checks, check) == Append(checks, check = "ok")

\* One turn of a_build's loop
ProcessPair ==
    /\ pc = "building"
    /\ Len(successes) < Len(Pairs)
    /\ \E check \in CheckResults :
        LET k == Len(successes) + 1
        IN  /\ log' = log \o << Event("dockerfile", Pairs[k], "written"),
                                Event("sanity", Pairs[k], check) >>
            /\ IF check \in {"ok", "SanityCheckError"}
               THEN /\ successes' = record_check(successes, check)
                    /\ UNCHANGED << pc, outcome, raised, exit_code >>
               ELSE IF check = "KeyboardInterrupt"
               THEN /\ pc' = "done"
                    /\ outcome' = "exited"
                    /\ exit_code' = 1
                    /\ UNCHANGED << successes, raised >>
               ELSE /\ pc' = "done"
                    /\ outcome' = "raised"
                    /\ raised' = Exc("Exception", 0, "")
                    /\ UNCHANGED << successes, exit_code >>
            /\ UNCHANGED << op, result, elements, success, changelog >>
            /\ parser_untouched

\* a_build returns all(sanity_check_successes)
ABuildReturn ==
    /\ pc = "building"
    /\ Len(successes) = Len(Pairs)
    /\ pc' = "built"
    /\ success' = all(successes)
    /\ UNCHANGED << op, outcome, result, raised, elements, log, successes, changelog,
                    exit_code >>
    /\ parser_untouched

\* main after a_build
MainFinish ==
    /\ pc = "built"
    /\ pc' = "done"
    /\ IF success
       THEN /\ changelog' = TRUE
            /\ outcome' = "returned"
            /\ UNCHANGED exit_code
       ELSE /\ exit_code' = 1
            /\ outcome' = "exited"
            /\ UNCHANGED changelog
    /\ UNCHANGED << op, result, raised, elements, log, successes, success >>
    /\ parser_untouched

-----------------------------------------------------------------------------

Next ==
    \/ InferSchema
    \/ ParseRecords
    \/ Attempt
    \/ CheckConfig
    \/ RenderMarkdown
    \/ MainStart
    \/ ProcessPair
    \/ ABuildReturn
    \/ MainFinish

Spec == Init /\ [][Next]_vars

-----------------------------------------------------------------------------
(* The retried remote extraction *)

\* The exception an answer stands for
error_of(answer) ==
    IF answer.kind = "conn" THEN ConnectionError ELSE HTTPError(answer.status)

in_retries == op = "parse_records" /\ tries >= 1

\* C1: when an attempt of the retried remote extraction fails with an HTTP
\* status in 400-499, the retrying ends there: that error is raised to the
\* caller and no further attempt is made (a first attempt that fails so is
\* the only request).
C1_UserErrorNotRetried ==
    (in_retries /\ last.kind = "http" /\ 400 <= last.status /\ last.status < 500)
        => /\ pc = "done"
           /\ outcome = "raised"
           /\ raised = HTTPError(last.status)

\* C2: the attempts are made one after the other (one request each) and are
\* never more than 5; a transient failure (connection error, 5xx) before the
\* fifth attempt is followed by another attempt; a successful attempt ends the
\* call with its rendered result, no attempt following it; a transient failure
\* of the fifth attempt is raised to the caller.
C2_TransientRetried ==
    in_retries =>
        /\ tries <= MaxTries
        /\ requests = tries
        /\ Len(fed) = tries
        /\ (pc = "retrying" => last.kind # "ok" /\ tries < MaxTries /\ outcome = "none")
        /\ (last.kind = "ok" => pc = "done")
        /\ (outcome = "returned" =>
                /\ pc = "done"
                /\ last.kind = "ok"
                /\ result = _render_markdown(last.body).value
                /\ records = << [content |-> result, document_key |-> file.uri] >>)
        /\ (is_transient(last) /\ tries < MaxTries => pc = "retrying")
        /\ (is_transient(last) /\ tries = MaxTries =>
                /\ pc = "done"
                /\ outcome = "raised"
                /\ raised = error_of(last)
                /\ records = << >>)

\* 503, 503, success: the third attempt's result is returned
C2_Witness ==
    /\ in_retries
    /\ transient
    /\ tries = 3
    /\ outcome = "returned"
    /\ last.body = << El_title, El_text >>
    /\ result = << "#", "#", " ", "A", "\n", "\n" >>

-----------------------------------------------------------------------------
(* check_config *)

Verdict(ok, message) == [ok |-> ok, message |-> message]

check_done == op = "check_config" /\ pc = "done"

\* The answer makes _read_file_remotely raise
answer_fails(answer) ==
    \/ answer.kind \in {"conn", "http", "malformed"}
    \/ \E i \in DOMAIN answer.body :
           \/ "type" \notin DOMAIN answer.body[i]
           \/ /\ answer.body[i].type \in {"Title", "ListItem", "Formula"}
              /\ "text" \notin DOMAIN answer.body[i]

\* C3, as stated: check_config never raises, whatever the configuration and
\* the outcome of the remote call; it returns (True, None) or (False, message).
C3_NeverRaises ==
    check_done =>
        /\ outcome = "returned"
        /\ raised = NoExc
        /\ \/ verdict = Verdict(TRUE, None)
           \/ verdict.ok = FALSE /\ verdict.message \notin {None, ""}

\* C3, amended: for a configuration whose format is an UnstructuredFormat,
\* check_config never raises and returns (True, None) or (False, message); in
\* remote mode it makes at most one extraction call (exactly one unless the
\* https rule rejects the URL), never a retry, and any exception of that call
\* becomes (False, detail of that exception).  For any other format it raises
\* ValueError, with no request made.
C3_NeverRaisesForValidFormat ==
    check_done =>
        IF config.format_valid
        THEN /\ outcome = "returned"
             /\ raised = NoExc
             /\ \/ verdict = Verdict(TRUE, None)
                \/ verdict.ok = FALSE /\ verdict.message \notin {None, ""}
             /\ requests <= 1
             /\ tries = 0
             /\ (requests = 1 => config.mode = "api" /\ last \in Answers)
             /\ (requests = 1 /\ answer_fails(last) =>
                    /\ verdict.ok = FALSE
                    /\ verdict.message \in {"HTTPError", "ConnectionError",
                                            "JSONDecodeError", "KeyError"}
                    /\ (last.kind = "http" => verdict.message = "HTTPError")
                    /\ (last.kind = "conn" => verdict.message = "ConnectionError"))
             /\ (requests = 1 /\ ~answer_fails(last) => verdict = Verdict(TRUE, None))
             /\ (config.mode = "api" /\ verdict.message # Msg_https => requests = 1)
        ELSE /\ outcome = "raised"
             /\ raised = ValueError
             /\ requests = 0

\* The remote call of a check fails with a 503: (False, detail), one request
C3_Witness ==
    /\ check_done
    /\ config.format_valid
    /\ config.mode = "api"
    /\ last = Answer("http", 503, << >>)
    /\ requests = 1
    /\ outcome = "returned"
    /\ verdict = Verdict(FALSE, "HTTPError")

\* "cloud" under case-insensitive comparison
is_cloud(mode) ==
    /\ Len(mode) = 5
    /\ mode[1] \in {"c", "C"}
    /\ mode[2] \in {"l", "L"}
    /\ mode[3] \in {"o", "O"}
    /\ mode[4] \in {"u", "U"}
    /\ mode[5] \in {"d", "D"}

is_https(url) ==
    /\ Len(url) >= 8
    /\ url[1] = "h" /\ url[2] = "t" /\ url[3] = "t" /\ url[4] = "p" /\ url[5] = "s"
    /\ url[6] = ":" /\ url[7] = "/" /\ url[8] = "/"

\* C4: check_config in remote mode, with DEPLOYMENT_MODE equal to "cloud"
\* whatever its case and an API URL that does not start with "https://",
\* returns (False, "Base URL must start with https://") and makes no request;
\* in local mode it returns (True, None) and makes no request, whatever
\* DEPLOYMENT_MODE is.
C4_CloudRequiresHttps ==
    (check_done /\ config.format_valid) =>
        /\ (config.mode = "api" /\ is_cloud(env) /\ ~is_https(config.api_url) =>
                /\ outcome = "returned"
                /\ verdict = Verdict(FALSE, Msg_https)
                /\ requests = 0
                /\ fed = << >>)
        /\ (config.mode = "local" =>
                /\ outcome = "returned"
                /\ verdict = Verdict(TRUE, None)
                /\ requests = 0
                /\ fed = << >>)

\* DEPLOYMENT_MODE=CLOUD and an http:// URL
C4_Witness ==
    /\ check_done
    /\ config.format_valid
    /\ config.mode = "api"
    /\ env = << "C", "L", "O", "U", "D" >>
    /\ config.api_url = Url_http
    /\ verdict = Verdict(FALSE, Msg_https)
    /\ requests = 0

-----------------------------------------------------------------------------
(* parse_records *)

Supported == {"MD", "PDF", "DOCX", "PPTX"}

\* parse_records got as far as opening the file
parsing == op = "parse_records" /\ config.format_valid

\* C5: for a file whose detected kind is not Markdown, PDF, DOCX or PPTX,
\* parse_records with the skip flag true logs one warning naming the file,
\* yields nothing, raises nothing and calls neither extraction; with the flag
\* false or unset it raises a record-parse error carrying the URI and yields
\* nothing.  For a supported kind it yields at most one record, whose
\* document_key is the URI.
C5_UnprocessableFollowsSkipFlag ==
    parsing =>
        IF filetype \notin Supported
        THEN /\ pc = "done"
             /\ records = << >>
             /\ local_calls = 0
             /\ requests = 0
             /\ fed = << >>
             /\ (config.skip = "True" =>
                    /\ outcome = "returned"
                    /\ raised = NoExc
                    /\ warnings = << file.uri >>)
             /\ (config.skip # "True" =>
                    /\ outcome = "raised"
                    /\ raised = Exc("RecordParseError", 0, file.uri)
                    /\ warnings = << >>)
        ELSE /\ Len(records) <= 1
             /\ \A i \in DOMAIN records : records[i].document_key = file.uri
             /\ (outcome = "returned" => Len(records) = 1 /\ records[1].content = result)
             /\ warnings = << >>

\* A text file with the skip flag set
C5_Witness ==
    /\ parsing
    /\ pc = "done"
    /\ filetype = "TXT"
    /\ config.skip = "True"
    /\ warnings = << file.uri >>
    /\ records = << >>
    /\ outcome = "returned"

\* _get_filetype ran
detected == op \in {"infer_schema", "parse_records"} /\ config.format_valid

\* C6: the detected kind is the MIME table's entry for the hint when the hint
\* is in the table, whatever the name and the content, without a content read;
\* otherwise the kind the file name gives when it is neither None nor Unknown,
\* without a content read; otherwise the kind the content gives, after one
\* content read.
C6_DetectionPriority ==
    detected =>
        IF file.mime_type \in {Mime_md, Mime_pdf, Mime_docx, Mime_pptx, Mime_txt}
        THEN /\ filetype = STR_TO_FILETYPE[file.mime_type]
             /\ sniffs = 0
        ELSE IF NameKind[file.uri] \in FileTypes \ {"UNK"}
        THEN /\ filetype = NameKind[file.uri]
             /\ sniffs = 0
        ELSE /\ filetype = file.content_kind
             /\ sniffs = 1

\* A PDF hint on a file named a.md whose content looks like DOCX
C6_Witness ==
    /\ detected
    /\ file.mime_type = Mime_pdf
    /\ file.uri = "a.md"
    /\ file.content_kind = "DOCX"
    /\ filetype = "PDF"
    /\ sniffs = 0

-----------------------------------------------------------------------------
(* _render_markdown *)

rendered == op = "render_markdown" /\ pc = "done"

Block(i) == _convert_to_markdown(elements[i]).value

RECURSIVE Offset(_)
\* Where block i starts in the output, counted from 0
Offset(i) == IF i = 1 THEN 0 ELSE Offset(i - 1) + Len(Block(i - 1)) + 2

\* One block per element, in order, two newlines between neighbours, nothing else
one_block_per_element(out) ==
    LET n == Len(elements)
    IN  /\ Len(out) = IF n = 0 THEN 0 ELSE Offset(n) + Len(Block(n))
        /\ \A i \in 1..n :
               SubSeq(out, Offset(i) + 1, Offset(i) + Len(Block(i))) = Block(i)
        /\ \A i \in 1..(n - 1) :
               /\ out[Offset(i) + Len(Block(i)) + 1] = "\n"
               /\ out[Offset(i) + Len(Block(i)) + 2] = "\n"

\* The element has the keys _convert_to_markdown reads without a default
renderable(el) ==
    /\ "type" \in DOMAIN el
    /\ el.type \in {"Title", "ListItem", "Formula"} => "text" \in DOMAIN el

\* C7, as stated: for every sequence of elements, those with no text included,
\* _render_markdown returns one block per element, in order, separated by
\* "\n\n".
C7_OneBlockPerElement ==
    rendered => outcome = "returned" /\ one_block_per_element(result)

\* C7, amended: for every sequence of elements that each have a type, and a
\* text when the type is Title, ListItem or Formula, _render_markdown returns
\* one block per element, in order, separated by "\n\n", with nothing before
\* the first or after the last; elements of other types may lack the text and
\* any element may have an empty one.  For a sequence holding an element
\* without type, or a Title, ListItem or Formula without text, it raises
\* KeyError and returns nothing.
C7_OneBlockPerRenderableElement ==
    rendered =>
        IF \A i \in DOMAIN elements : renderable(elements[i])
        THEN outcome = "returned" /\ one_block_per_element(result)
        ELSE outcome = "raised" /\ raised = KeyError /\ result = << >>

\* An element without text before a list item with an empty text
C7_Witness ==
    /\ rendered
    /\ outcome = "returned"
    /\ elements = << [type |-> "NarrativeText"], [type |-> "ListItem", text |-> << >>] >>
    /\ result = << "\n", "\n", "-", " " >>

-----------------------------------------------------------------------------
(* _read_file *)

\* C8: a parse call invokes at most one of the local library and the remote
\* API, the one the processing mode names; a Markdown file is decoded as
\* UTF-8 and returned unchanged with neither invoked, in both modes (an
\* undecodable one raises the decoding error).
C8_PathsExclusive ==
    op = "parse_records" =>
        /\ ~(local_calls > 0 /\ requests > 0)
        /\ (local_calls > 0 => config.mode = "local")
        /\ (requests > 0 \/ pc = "retrying" => config.mode = "api")
        /\ (config.format_valid /\ filetype = "MD" =>
                /\ pc = "done"
                /\ local_calls = 0
                /\ requests = 0
                /\ IF \A i \in DOMAIN file.content : file.content[i] = 65
                   THEN /\ outcome = "returned"
                        /\ Len(result) = Len(file.content)
                        /\ \A i \in DOMAIN result : result[i] = "A"
                        /\ records = << [content |-> result, document_key |-> file.uri] >>
                   ELSE /\ outcome = "raised"
                        /\ raised = UnicodeDecodeError
                        /\ records = << >>)

\* A Markdown file under API processing
C8_Witness ==
    /\ op = "parse_records"
    /\ config.format_valid
    /\ config.mode = "api"
    /\ filetype = "MD"
    /\ file.content = << 65, 65 >>
    /\ result = << "A", "A" >>
    /\ requests = 0
    /\ local_calls = 0

\* C9: after _get_filetype on a handle at the start the handle is at the start
\* again, on each detection path: infer_schema leaves it there, and the first
\* read of the extraction that follows in parse_records gets the whole file.
C9_DetectionRewinds ==
    /\ (op = "infer_schema" /\ pc = "done" => pos = 0)
    /\ (op = "parse_records" /\ Len(fed) >= 1 => fed[1] = file.content)

\* A two-byte file recognised by its content, then read whole
C9_Witness ==
    /\ op = "parse_records"
    /\ sniffs = 1
    /\ Len(file.content) = MaxFileLen
    /\ filetype = "DOCX"
    /\ fed = << file.content >>

-----------------------------------------------------------------------------
(* The build script *)

NumPairs == NumPlatforms * NumImages

\* The place of a pair in the enumeration: platforms in order, and for each
\* platform the images in order
Rank(pair) ==
    1 + Cardinality({q \in (1..NumPlatforms) \X (1..NumImages) :
                        \/ q[1] < pair[1]
                        \/ q[1] = pair[1] /\ q[2] < pair[2]})

\* C10: the pairs are processed in enumeration order, each one's Dockerfile
\* generated before its sanity check runs; a SanityCheckError does not stop
\* the loop; a_build returns true exactly when every sanity check passed; main
\* writes the changelog only then, and otherwise exits with status 1 without
\* writing it.
C10_BuildOrderAndOutcome ==
    op = "build" =>
        /\ Len(log) % 2 = 0
        /\ \A k \in 1..(Len(log) \div 2) :
               /\ log[2 * k - 1].what = "dockerfile"
               /\ log[2 * k].what = "sanity"
               /\ log[2 * k - 1].pair = log[2 * k].pair
               /\ Rank(log[2 * k].pair) = k
        /\ \A k \in DOMAIN successes : successes[k] = (log[2 * k].how = "ok")
        /\ \A k \in 1..(Len(log) \div 2) :
               log[2 * k].how \in {"ok", "SanityCheckError"} =>
                   /\ k <= Len(successes)
                   /\ (k = Len(log) \div 2 /\ k < NumPairs => pc = "building")
        /\ (pc = "building" => Len(log) = 2 * Len(successes))
        /\ (pc = "built" \/ (pc = "done" /\ outcome # "raised" /\ exit_code # 1) =>
                Len(successes) = NumPairs)
        /\ (pc = "built" \/ (pc = "done" /\ Len(successes) = NumPairs) =>
                /\ Len(log) = 2 * NumPairs
                /\ success = (\A k \in 1..NumPairs : log[2 * k].how = "ok"))
        /\ (changelog => pc = "done" /\ Len(successes) = NumPairs /\ success)
        /\ (pc = "done" /\ Len(successes) = NumPairs =>
                IF success
                THEN changelog /\ exit_code = -1 /\ outcome = "returned"
                ELSE ~changelog /\ exit_code = 1 /\ outcome = "exited")

\* The first pair's sanity check fails and every pair is still processed
C10_Witness ==
    /\ op = "build"
    /\ pc = "done"
    /\ Len(log) = 2 * NumPairs
    /\ log[2].how = "SanityCheckError"
    /\ log[2 * NumPairs].how = "ok"
    /\ ~success
    /\ exit_code = 1
    /\ ~changelog

-----------------------------------------------------------------------------
(* The bytes each attempt uploads *)

\* C11: every attempt of the retried remote extraction, the first and each
\* retry after a transient failure, uploads the complete content of the file:
\* attempt k sends the same bytes as the first attempt, the whole file.
C11_EveryAttemptUploadsWholeFile ==
    (in_retries /\ transient) =>
        \A k \in DOMAIN fed : fed[k] = file.content

====
